---- MODULE Spec2Model ----
(***************************************************************************)
(* A model of two programs of the imgclsmob repository:                    *)
(*   - eval_gl_cifar.py: main() and test(), the evaluation script;         *)
(*   - gluon/gluoncv2/models/pspnet.py: PSPNet, get_pspnet and the eight   *)
(*     pspnet_* factories.                                                 *)
(* Spec is the evaluation script, SpecPSP the PSPNet calls and SpecCount   *)
(* the trainable-parameter counting of PSPNet models.                      *)
(***************************************************************************)
EXTENDS Integers, Sequences, FiniteSets, TLC

VARIABLES
    \* ---- eval_gl_cifar.py
    entry,        \* "main": the script is run; "test": test() is called directly
    args,         \* the parsed command line (parse_args)
    params,       \* the keyword arguments test() runs with
    pc,           \* position of the run
    failure,      \* the assertion that ended the run, or "none"
    trace,        \* the validation pass and the log lines, in order of occurrence
    weight_count, \* calc_net_weight_count(net)
    num_params,   \* the parameter count measure_model returns
    \* ---- gluon/gluoncv2/models/pspnet.py
    last,         \* the last call: what was called, with which arguments
    raised,       \* the exception the last call raised, or "none"
    net,          \* <<the PSPNet the last call returned>>, or <<>>
    loaded,       \* the model name whose weight file the last call loaded, or ""
    ys,           \* what the last forward pass of net returned
    counts        \* the last two trainable-parameter counts taken, latest last

evalVars == <<entry, args, params, pc, failure, trace, weight_count, num_params>>

pspVars == <<last, raised, net, loaded, ys, counts>>

vars == <<evalVars, pspVars>>

----------------------------------------------------------------------------
\* Bounds of the model.

\* longest --resume string that is enumerated
MaxResumeLen == 2
\* parameter counts of the evaluated network range over 1..MaxParamCount
MaxParamCount == 2

----------------------------------------------------------------------------
\* eval_gl_cifar.py

\* characters a --resume value is made of: a blank and a non-blank
Chars == {" ", "a"}

Whitespace == {" "}

ResumeStrings == UNION {[1..n -> Chars] : n \in 0..MaxResumeLen}

RECURSIVE LStrip(_)
LStrip(s) ==
    IF s # <<>> /\ Head(s) \in Whitespace THEN LStrip(Tail(s)) ELSE s

RECURSIVE RStrip(_)
RStrip(s) ==
    IF s # <<>> /\ s[Len(s)] \in Whitespace
    THEN RStrip(SubSeq(s, 1, Len(s) - 1))
    ELSE s

\* str.strip(): leading and trailing whitespace removed
Strip(s) == RStrip(LStrip(s))

\* truth value of a Python string
Truthy(s) == s # <<>>

ParsedArgs ==
    [use_pretrained : BOOLEAN,
     resume : ResumeStrings,
     calc_flops : BOOLEAN,
     calc_flops_only : BOOLEAN]

NoArgs ==
    [use_pretrained |-> FALSE, resume |-> <<>>,
     calc_flops |-> FALSE, calc_flops_only |-> FALSE]

TestParams ==
    [calc_weight_count : BOOLEAN,
     calc_flops : BOOLEAN,
     calc_flops_only : BOOLEAN,
     extended_log : BOOLEAN]

\* the defaults of test()'s keyword arguments
TestDefaults ==
    [calc_weight_count |-> FALSE, calc_flops |-> FALSE,
     calc_flops_only |-> TRUE, extended_log |-> FALSE]

\* the keyword arguments main() passes to test()
MainTestParams(a) ==
    [calc_weight_count |-> TRUE,
     calc_flops |-> a.calc_flops,
     calc_flops_only |-> a.calc_flops_only,
     extended_log |-> TRUE]

\* the condition of main()'s assertion, were --resume not stripped
ArgsAcceptedNoStrip(a) ==
    a.use_pretrained \/ Truthy(a.resume) \/ a.calc_flops_only

\* the condition of main()'s assertion
ArgsAccepted(a) ==
    a.use_pretrained \/ Truthy(Strip(a.resume)) \/ a.calc_flops_only

\* the events of test(): the validation pass and the kinds of log line
EvValidate == "validate1"
LineErrExt == "Test: err={err:.4f} ({err})"
LineErr == "Test: err={err:.4f}"
LineTime == "Time cost"
LineModel == "Model: {} trainable parameters"
LineStats == "Params, FLOPs, FLOPs/2, MACs"

ErrLines == {LineErrExt, LineErr}

\* test(), were the validation pass not behind calc_flops_only
RunsValidationAlways(p) == TRUE

\* whether test() does the validation pass
RunsValidation(p) == ~p.calc_flops_only

\* what the validation part of test() adds to the trace
ValidationEvents(p) ==
    IF RunsValidation(p)
    THEN <<EvValidate, IF p.extended_log THEN LineErrExt ELSE LineErr, LineTime>>
    ELSE <<>>

\* test(), were the 'Model:' line not behind calc_flops
LogsModelLineAlways(p) == p.calc_weight_count

\* whether test() logs the 'Model: N trainable parameters' line
LogsModelLine(p) == p.calc_weight_count /\ ~p.calc_flops

EvalInit ==
    /\ entry \in {"main", "test"}
    /\ IF entry = "main"
       THEN /\ args \in ParsedArgs
            /\ params = TestDefaults
            /\ pc = "main"
       ELSE /\ args = NoArgs
            /\ params \in TestParams
            /\ pc = "validate"
    /\ failure = "none"
    /\ trace = <<>>
    /\ weight_count = 0
    /\ num_params = 0

\* main(), up to the data source: logging, context, model and data are set up
Setup ==
    /\ pc = "main"
    /\ pc' = "check"
    /\ UNCHANGED <<entry, args, params, failure, trace, weight_count, num_params>>
    /\ UNCHANGED pspVars

\* main(): the assertion on the arguments, then the call of test()
CheckArgs ==
    /\ pc = "check"
    /\ IF ArgsAccepted(args)
       THEN /\ pc' = "validate"
            /\ params' = MainTestParams(args)
            /\ failure' = failure
       ELSE /\ pc' = "failed"
            /\ failure' = "main:180"
            /\ params' = params
    /\ UNCHANGED <<entry, args, trace, weight_count, num_params>>
    /\ UNCHANGED pspVars

\* test(): the validation pass with its two log lines
TestValidate ==
    /\ pc = "validate"
    /\ trace' = trace \o ValidationEvents(params)
    /\ pc' = "count"
    /\ UNCHANGED <<entry, args, params, failure, weight_count, num_params>>
    /\ UNCHANGED pspVars

\* test(): the parameter count
TestWeightCount ==
    /\ pc = "count"
    /\ IF params.calc_weight_count
       THEN \E n \in 1..MaxParamCount : weight_count' = n
       ELSE weight_count' = weight_count
    /\ trace' = IF LogsModelLine(params) THEN Append(trace, LineModel) ELSE trace
    /\ pc' = "flops"
    /\ UNCHANGED <<entry, args, params, failure, num_params>>
    /\ UNCHANGED pspVars

\* test(): the FLOPs measurement
TestFlops ==
    /\ pc = "flops"
    /\ IF params.calc_flops
       THEN \E n \in 1..MaxParamCount :
              /\ num_params' = n
              /\ IF (~params.calc_weight_count) \/ (weight_count = n)
                 THEN /\ trace' = Append(trace, LineStats)
                      /\ pc' = "done"
                      /\ failure' = failure
                 ELSE /\ trace' = trace
                      /\ pc' = "failed"
                      /\ failure' = "test:139"
       ELSE /\ pc' = "done"
            /\ UNCHANGED <<num_params, trace, failure>>
    /\ UNCHANGED <<entry, args, params, weight_count>>
    /\ UNCHANGED pspVars

EvalNext ==
    \/ Setup
    \/ CheckArgs
    \/ TestValidate
    \/ TestWeightCount
    \/ TestFlops

----------------------------------------------------------------------------
\* gluon/gluoncv2/models/pspnet.py

\* downscale factor of the backbone, which in_size must be divisible by
Stride == 8

\* side of the input image the self-test uses, and of the default in_size
TestSize == 480

\* the default of backbone_out_channels
DefaultBackboneOutChannels == 2048

\* the default of in_channels, and the channels of the self-test's input
DefaultInChannels == 3

\* the default of PSPNet's argument classes
DefaultClasses == 21

\* largest side of an image below TestSize that is enumerated
MaxDim == 9
\* largest batch size of a forward pass
MaxBatch == 2
\* class counts 1..MaxSmallClasses are enumerated beside those of the datasets
MaxSmallClasses == 2

Dims == (0..MaxDim) \cup {TestSize}

Sizes == Dims \X Dims

DefaultInSize == <<TestSize, TestSize>>

\* resnetd50b / resnetd101b (...).features[:-1]: the feature extractor, with
\* the channels of its two outputs and the number of its trainable parameters
Resnetd(depth) ==
    [depth |-> depth,
     out_channels |-> 2048,
     aux_channels |-> 1024,
     weight_count |-> IF depth = 50 THEN 23631808 ELSE 42623936]

Backbones == {Resnetd(50), Resnetd(101)}

Factories ==
    {"pspnet_resnet50_voc", "pspnet_resnet101_voc",
     "pspnet_resnet50_coco", "pspnet_resnet101_coco",
     "pspnet_resnet50_ade20k", "pspnet_resnet101_ade20k",
     "pspnet_resnet50_sityscapes", "pspnet_resnet101_sityscapes"}

\* the backbone a factory builds
FactoryDepth(f) ==
    IF f \in {"pspnet_resnet50_voc", "pspnet_resnet50_coco",
              "pspnet_resnet50_ade20k", "pspnet_resnet50_sityscapes"}
    THEN 50 ELSE 101

\* the dataset a factory is for
FactoryDataset(f) ==
    CASE f \in {"pspnet_resnet50_voc", "pspnet_resnet101_voc"} -> "voc"
      [] f \in {"pspnet_resnet50_coco", "pspnet_resnet101_coco"} -> "coco"
      [] f \in {"pspnet_resnet50_ade20k", "pspnet_resnet101_ade20k"} -> "ade20k"
      [] OTHER -> "sityscapes"

\* the default of a factory's argument classes
FactoryClasses(f) ==
    CASE FactoryDataset(f) \in {"voc", "coco"} -> 21
      [] FactoryDataset(f) = "ade20k" -> 150
      [] OTHER -> 19

\* the model_name a factory passes to get_pspnet
FactoryModelName(f) ==
    CASE f = "pspnet_resnet50_voc" -> "pspnet_resnet50_voc"
      [] f = "pspnet_resnet101_voc" -> "pspnet_resnet101_voc"
      [] f = "pspnet_resnet50_coco" -> "pspnet_resnet50_mscoco"
      [] f = "pspnet_resnet101_coco" -> "pspnet_resnet101_mscoco"
      [] f = "pspnet_resnet50_ade20k" -> "pspnet_resnet50_ade20k"
      [] f = "pspnet_resnet101_ade20k" -> "pspnet_resnet50_ade20k"
      [] f = "pspnet_resnet50_sityscapes" -> "pspnet_resnet50_sityscapes"
      [] OTHER -> "pspnet_resnet101_sityscapes"

\* PSPFinalBlock.__init__: <<the block>>, or <<>> when its assertion fails
PSPFinalBlockInit(in_channels, out_channels, out_size, bottleneck_factor) ==
    IF in_channels % bottleneck_factor # 0
    THEN <<>>
    ELSE <<[in_channels |-> in_channels,
            mid_channels |-> in_channels \div bottleneck_factor,
            out_channels |-> out_channels,
            use_bias |-> TRUE,
            out_size |-> out_size]>>

\* PyramidPooling.__init__: <<the module>>, or <<>> when its assertion fails
PyramidPoolingInit(in_channels, in_size) ==
    IF in_channels % 4 # 0
    THEN <<>>
    ELSE <<[in_channels |-> in_channels,
            mid_channels |-> in_channels \div 4,
            output_sizes |-> <<1, 2, 3, 6>>,
            out_size |-> in_size]>>

\* the assertion on in_size, were the width not tested
InSizeAcceptedFirstOnly(in_size) == in_size[1] % Stride = 0

\* the assertion of PSPNet.__init__ on in_size
InSizeAccepted(in_size) == (in_size[1] % Stride = 0) /\ (in_size[2] % Stride = 0)

\* PSPNet.__init__: the exception raised, or "none", and <<the network>>
PSPNetInit(backbone, backbone_out_channels, aux, in_channels, in_size, classes) ==
    LET pool == PyramidPoolingInit(backbone_out_channels,
                                   <<in_size[1] \div Stride, in_size[2] \div Stride>>)
        pool_out_channels == 2 * backbone_out_channels
        final_block == PSPFinalBlockInit(pool_out_channels, classes, in_size, 8)
        aux_out_channels == backbone_out_channels \div 2
        aux_block == IF aux
                     THEN PSPFinalBlockInit(aux_out_channels, classes, in_size, 4)
                     ELSE <<>>
        failed == [raised |-> "AssertionError", net |-> <<>>]
    IN  IF ~(in_channels > 0) THEN failed
        ELSE IF ~InSizeAccepted(in_size) THEN failed
        ELSE IF pool = <<>> THEN failed
        ELSE IF final_block = <<>> THEN failed
        ELSE IF aux /\ aux_block = <<>> THEN failed
        ELSE [raised |-> "none",
              net |-> <<[backbone |-> backbone,
                         in_size |-> in_size,
                         classes |-> classes,
                         aux |-> aux,
                         pool |-> pool[1],
                         final_block |-> final_block[1],
                         aux_block |-> aux_block]>>]

\* a model_name is <<>> for None and <<s>> for the string s

\* the test of get_pspnet, were the empty string not refused
NameMissingNoneOnly(model_name) == model_name = <<>>

\* get_pspnet: the test that refuses to load pretrained weights
NameMissing(model_name) == (model_name = <<>>) \/ (model_name[1] = "")

\* get_pspnet: the exception raised, the network returned and the model name
\* whose weight file was loaded into it
GetPspnetResult(backbone, classes, model_name, pretrained, backbone_out_channels, aux, in_channels, in_size) ==
    LET r == PSPNetInit(backbone, backbone_out_channels, aux, in_channels,
                        in_size, classes)
    IN  IF r.raised # "none"
        THEN [raised |-> r.raised, net |-> <<>>, loaded |-> ""]
        ELSE IF pretrained
        THEN IF NameMissing(model_name)
             THEN [raised |-> "ValueError", net |-> <<>>, loaded |-> ""]
             ELSE [raised |-> "none", net |-> r.net, loaded |-> model_name[1]]
        ELSE [raised |-> "none", net |-> r.net, loaded |-> ""]

\* the keyword arguments a caller gives a factory beside its own
Kwargs ==
    {k \in [has_pretrained : BOOLEAN, pretrained : BOOLEAN,
            has_aux : BOOLEAN, aux : BOOLEAN,
            has_in_size : BOOLEAN, in_size : Sizes] :
        /\ ~k.has_pretrained => ~k.pretrained
        /\ ~k.has_aux => ~k.aux
        /\ ~k.has_in_size => k.in_size = DefaultInSize}

\* a pspnet_* factory: it passes aux=True to get_pspnet beside the caller's
\* keyword arguments, which is a TypeError when these hold aux as well
FactoryResult(f, kw) ==
    IF kw.has_aux
    THEN [raised |-> "TypeError", net |-> <<>>, loaded |-> ""]
    ELSE GetPspnetResult(Resnetd(FactoryDepth(f)), FactoryClasses(f),
                         <<FactoryModelName(f)>>, kw.pretrained,
                         DefaultBackboneOutChannels, TRUE, DefaultInChannels,
                         kw.in_size)

\* a tensor shape (N, C, H, W)
Shape(n, c, h, w) == [n |-> n, c |-> c, h |-> h, w |-> w]

\* the two outputs of the backbone: features and auxiliary features, both
\* downscaled by Stride
BackboneForward(backbone, x) ==
    <<Shape(x.n, backbone.out_channels, x.h \div Stride, x.w \div Stride),
      Shape(x.n, backbone.aux_channels, x.h \div Stride, x.w \div Stride)>>

\* PyramidPooling.hybrid_forward: the input beside the four branches, each
\* resized to out_size, concatenated along the channels
PyramidPoolingForward(pool, x) ==
    IF x.c # pool.in_channels \/ <<x.h, x.w>> # pool.out_size
    THEN <<>>
    ELSE <<Shape(x.n, x.c + Len(pool.output_sizes) * pool.mid_channels,
                 pool.out_size[1], pool.out_size[2])>>

\* PSPFinalBlock.hybrid_forward
PSPFinalBlockForward(block, x) ==
    IF x.c # block.in_channels
    THEN <<>>
    ELSE <<Shape(x.n, block.out_channels, block.out_size[1], block.out_size[2])>>

\* what ys holds: the input of the forward pass and what it returned
NoOutput == [kind |-> "none", x |-> Shape(0, 0, 0, 0), shapes |-> <<>>]

\* PSPNet.hybrid_forward: one output, or the pair (main, auxiliary)
PSPNetForward(n, x) ==
    LET xy == BackboneForward(n.backbone, x)
        p == PyramidPoolingForward(n.pool, xy[1])
        main == IF p = <<>> THEN <<>> ELSE PSPFinalBlockForward(n.final_block, p[1])
        auxo == IF n.aux THEN PSPFinalBlockForward(n.aux_block[1], xy[2]) ELSE <<>>
        error == [kind |-> "error", x |-> x, shapes |-> <<>>]
    IN  IF main = <<>> THEN error
        ELSE IF n.aux
        THEN IF auxo = <<>> THEN error
             ELSE [kind |-> "pair", x |-> x, shapes |-> <<main[1], auxo[1]>>]
        ELSE [kind |-> "single", x |-> x, shapes |-> <<main[1]>>]

\* trainable parameters of conv1x1_block / conv3x3_block: a convolution
\* without bias and the scale and shift of its batch normalisation
ConvBlockWeightCount(in_channels, out_channels, kernel) ==
    kernel * kernel * in_channels * out_channels + 2 * out_channels

\* trainable parameters of conv1x1
Conv1x1WeightCount(in_channels, out_channels, use_bias) ==
    in_channels * out_channels + (IF use_bias THEN out_channels ELSE 0)

\* trainable parameters of a PSPFinalBlock
PSPFinalBlockWeightCount(block) ==
    ConvBlockWeightCount(block.in_channels, block.mid_channels, 3)
    + Conv1x1WeightCount(block.mid_channels, block.out_channels, block.use_bias)

\* trainable parameters of a PyramidPooling: one conv1x1_block per branch
PyramidPoolingWeightCount(pool) ==
    Len(pool.output_sizes)
    * ConvBlockWeightCount(pool.in_channels, pool.mid_channels, 1)

\* the self-test's weight_count of a network
PSPNetWeightCount(n) ==
    n.backbone.weight_count
    + PyramidPoolingWeightCount(n.pool)
    + PSPFinalBlockWeightCount(n.final_block)
    + (IF n.aux THEN PSPFinalBlockWeightCount(n.aux_block[1]) ELSE 0)

\* the weight_count the self-test asserts for a factory's model
GoldenWeightCount(f, aux) ==
    IF aux
    THEN CASE f \in {"pspnet_resnet50_voc", "pspnet_resnet50_coco"} -> 49081536
           [] f \in {"pspnet_resnet101_voc", "pspnet_resnet101_coco"} -> 68073664
           [] f = "pspnet_resnet50_ade20k" -> 49180608
           [] f = "pspnet_resnet101_ade20k" -> 68172736
           [] f = "pspnet_resnet50_sityscapes" -> 49080000
           [] OTHER -> 68072128
    ELSE CASE f \in {"pspnet_resnet50_voc", "pspnet_resnet50_coco"} -> 46716352
           [] f \in {"pspnet_resnet101_voc", "pspnet_resnet101_coco"} -> 65708480
           [] f = "pspnet_resnet50_ade20k" -> 46782400
           [] f = "pspnet_resnet101_ade20k" -> 65774528
           [] f = "pspnet_resnet50_sityscapes" -> 46715328
           [] OTHER -> 65707456

ClassCounts == (1..MaxSmallClasses) \cup {19, 21, 150}

ModelNames == {<<>>, <<"">>, <<"pspnet_resnet50_voc">>}

\* the call recorded in last
Call(op, f, model_name, pretrained, has_aux, aux, in_channels, in_size) ==
    [op |-> op, f |-> f, model_name |-> model_name, pretrained |-> pretrained,
     has_aux |-> has_aux, aux |-> aux, in_channels |-> in_channels,
     in_size |-> in_size]

NoCall == Call("none", "", <<>>, FALSE, FALSE, FALSE, 0, <<0, 0>>)

PSPIdle ==
    /\ last = NoCall
    /\ raised = "none"
    /\ net = <<>>
    /\ loaded = ""
    /\ ys = NoOutput
    /\ counts = <<>>

EvalIdle ==
    /\ entry = "none"
    /\ args = NoArgs
    /\ params = TestDefaults
    /\ pc = "idle"
    /\ failure = "none"
    /\ trace = <<>>
    /\ weight_count = 0
    /\ num_params = 0

\* the state a call leaves behind
Returned(r) ==
    /\ raised' = r.raised
    /\ net' = r.net
    /\ loaded' = r.loaded
    /\ ys' = NoOutput
    /\ UNCHANGED counts
    /\ UNCHANGED evalVars

\* PSPNet(backbone, backbone_out_channels, aux, in_channels, in_size, classes)
NewPSPNet(backbone, backbone_out_channels, aux, in_channels, in_size, classes) ==
    /\ last' = Call("PSPNet", "", <<>>, FALSE, TRUE, aux, in_channels, in_size)
    /\ LET r == PSPNetInit(backbone, backbone_out_channels, aux, in_channels,
                           in_size, classes)
       IN  Returned([raised |-> r.raised, net |-> r.net, loaded |-> ""])

\* get_pspnet(backbone, classes, model_name, pretrained, aux=..., in_size=...)
GetPspnet(backbone, classes, model_name, pretrained, aux, in_size) ==
    /\ last' = Call("get_pspnet", "", model_name, pretrained, TRUE, aux,
                    DefaultInChannels, in_size)
    /\ Returned(GetPspnetResult(backbone, classes, model_name, pretrained,
                                DefaultBackboneOutChannels, aux,
                                DefaultInChannels, in_size))

\* f(**kw), f one of the pspnet_* factories
Factory(f, kw) ==
    /\ last' = Call(f, f, <<FactoryModelName(f)>>, kw.pretrained, kw.has_aux,
                    kw.aux, DefaultInChannels, kw.in_size)
    /\ Returned(FactoryResult(f, kw))

\* net(x), x a batch of batch images of the expected size (N, 3, H, W),
\* (H, W) the in_size of the network, both positive
Forward(batch) ==
    /\ net # <<>>
    /\ net[1].in_size[1] > 0 /\ net[1].in_size[2] > 0
    /\ ys' = PSPNetForward(net[1], Shape(batch, DefaultInChannels,
                                         net[1].in_size[1], net[1].in_size[2]))
    /\ UNCHANGED <<last, raised, net, loaded, counts>>
    /\ UNCHANGED evalVars

\* the self-test's loop over net.collect_params()
CollectParams ==
    /\ net # <<>>
    /\ counts' = (IF Len(counts) = 2 THEN Tail(counts) ELSE counts)
                 \o <<[backbone |-> net[1].backbone,
                       in_channels |-> net[1].pool.in_channels,
                       aux |-> net[1].aux,
                       classes |-> net[1].classes,
                       weight_count |-> PSPNetWeightCount(net[1])]>>
    /\ UNCHANGED <<last, raised, net, loaded, ys>>
    /\ UNCHANGED evalVars

\* a call reads nothing of the state, so one call from the initial state
\* stands for every call
FirstCall == last.op = "none"

\* the first call of a PSPNet constructor
CallPSPNet ==
    /\ FirstCall
    /\ \E b \in Backbones, boc \in {2046, 2048, 2052}, aux \in BOOLEAN,
          ic \in {0, 1, DefaultInChannels}, size \in Sizes,
          classes \in {19, DefaultClasses} :
            NewPSPNet(b, boc, aux, ic, size, classes)

\* the first call of get_pspnet
CallGetPspnet ==
    /\ FirstCall
    /\ \E b \in Backbones, classes \in {DefaultClasses, 150},
          model_name \in ModelNames, pretrained \in BOOLEAN, aux \in BOOLEAN,
          size \in Sizes :
            GetPspnet(b, classes, model_name, pretrained, aux, size)

\* the first call of a factory
CallFactory ==
    /\ FirstCall
    /\ \E f \in Factories, kw \in Kwargs : Factory(f, kw)

PSPNext ==
    \/ CallPSPNet
    \/ CallGetPspnet
    \/ CallFactory
    \/ \E batch \in 1..MaxBatch : Forward(batch)

CountNext ==
    \/ \E b \in Backbones, aux \in BOOLEAN, classes \in ClassCounts :
            NewPSPNet(b, DefaultBackboneOutChannels, aux, DefaultInChannels,
                      DefaultInSize, classes)
    \/ CollectParams

----------------------------------------------------------------------------
\* The specifications.

Init == EvalInit /\ PSPIdle

Next == EvalNext

\* the evaluation script
Spec == Init /\ [][Next]_vars

\* the state before any call of pspnet.py
InitPSP == EvalIdle /\ PSPIdle

\* calls of the PSPNet constructors and forward passes
SpecPSP == InitPSP /\ [][PSPNext]_vars

\* PSPNet models and their trainable-parameter counts
SpecCount == InitPSP /\ [][CountNext]_vars

----------------------------------------------------------------------------
\* Properties of the evaluation script (checked under Spec).

Range(s) == {s[i] : i \in DOMAIN s}

Occurrences(s, x) == Cardinality({i \in DOMAIN s : s[i] = x})

\* main() was given neither pretrained weights nor a resume path
NoWeightsGiven == entry = "main" /\ ~args.use_pretrained /\ ~Truthy(Strip(args.resume))

\* the run has not got past main()'s assertion and has evaluated nothing
StoppedAtCheck ==
    /\ pc \in {"main", "check", "failed"}
    /\ pc = "failed" => failure = "main:180"
    /\ trace = <<>>

\* C3, as stated: whenever --use-pretrained is not set and --resume is empty
\* or only whitespace, the run fails main()'s argument assertion and performs
\* no evaluation.
C3_Original == NoWeightsGiven => StoppedAtCheck

\* C3, amended: whenever --use-pretrained is not set, --resume is empty or
\* only whitespace and --calc-flops-only is not set, the run fails main()'s
\* argument assertion and performs no evaluation; with --calc-flops-only set
\* the assertion does not fail.
C3_Amended ==
    /\ (NoWeightsGiven /\ ~args.calc_flops_only) => StoppedAtCheck
    /\ (NoWeightsGiven /\ args.calc_flops_only) => failure # "main:180"

\* a run given only a blank --resume has failed the assertion
C3_Witness ==
    /\ NoWeightsGiven /\ ~args.calc_flops_only
    /\ args.resume = <<" ">>
    /\ pc = "failed" /\ failure = "main:180"

\* C6, as stated: every finished run with calc_flops_only set has logged the
\* FLOPs statistics line and has done no validation pass and logged no
\* error-rate or time-cost line, whether or not calc_flops is set.
C6_Claim ==
    (pc = "done" /\ params.calc_flops_only) =>
        /\ LineStats \in Range(trace)
        /\ Range(trace) \cap ({EvValidate, LineTime} \cup ErrLines) = {}

\* C9: every run of test() with calc_weight_count=True that finishes without
\* error has logged the parameter count in exactly one line: the 'Model:'
\* line when calc_flops is false, the 'Params:' statistics line when it is
\* true.
C9_OneCountLine ==
    (pc = "done" /\ params.calc_weight_count) =>
        /\ Occurrences(trace, LineModel) + Occurrences(trace, LineStats) = 1
        /\ LineModel \in Range(trace) <=> ~params.calc_flops
        /\ LineStats \in Range(trace) <=> params.calc_flops

\* a finished run that counted the weights and measured the FLOPs
C9_Witness ==
    /\ pc = "done" /\ params.calc_weight_count /\ params.calc_flops
    /\ weight_count = num_params /\ weight_count > 0
    /\ LineStats \in Range(trace)

\* the validation part of test() is behind the run
ValidationPartDone == pc \in {"count", "flops", "done"} \/ failure = "test:139"

\* C10: in test() the validation pass runs if and only if calc_flops_only is
\* false; when it runs, the pass comes first, then the error-rate line, then
\* the time-cost line, and any parameter-count or FLOPs line comes after
\* these; a FLOPs line is logged only if calc_flops is true.
C10_Order ==
    /\ EvValidate \in Range(trace) => ~params.calc_flops_only
    /\ ValidationPartDone => (EvValidate \in Range(trace) <=> ~params.calc_flops_only)
    /\ EvValidate \in Range(trace) =>
          /\ Len(trace) >= 3
          /\ trace[1] = EvValidate /\ trace[2] \in ErrLines /\ trace[3] = LineTime
    /\ \A i \in DOMAIN trace :
          /\ trace[i] = EvValidate => i = 1
          /\ trace[i] \in ErrLines => i = 2 /\ trace[1] = EvValidate
          /\ trace[i] = LineTime => i = 3 /\ trace[2] \in ErrLines
          /\ (trace[i] \in {LineModel, LineStats} /\ ~params.calc_flops_only) => i > 3
    /\ LineStats \in Range(trace) => params.calc_flops

\* a finished run with the validation pass, the count and the FLOPs line
C10_Witness ==
    /\ pc = "done" /\ ~params.calc_flops_only /\ params.calc_flops
    /\ Len(trace) = 4 /\ trace[1] = EvValidate /\ trace[4] = LineStats

----------------------------------------------------------------------------
\* Properties of pspnet.py (checked under SpecPSP and SpecCount).

\* the last call was a factory called with in_size accepted by PSPNet
FactoryCalled ==
    /\ last.f \in Factories
    /\ last.in_size[1] % Stride = 0 /\ last.in_size[2] % Stride = 0

\* C1, as stated: a factory called with aux=False and H, W divisible by 8
\* returns a model that maps an input (N, 3, H, W) to a single output of
\* shape (N, classes, H, W), classes the factory's number of classes.
C1_Claim ==
    (FactoryCalled /\ last.has_aux /\ ~last.aux) =>
        /\ raised = "none"
        /\ net # <<>>
        /\ ys.kind # "none" =>
              /\ ys.kind = "single"
              /\ ys.shapes = <<Shape(ys.x.n, FactoryClasses(last.f),
                                     last.in_size[1], last.in_size[2])>>
              /\ <<ys.x.h, ys.x.w>> = last.in_size

\* C2, as stated: a factory accepts the keyword argument aux: called with
\* aux=False it returns a PSPNet whose forward pass yields the main output
\* alone, called with aux=True one whose forward pass yields the pair.
C2_Claim ==
    (FactoryCalled /\ last.has_aux) =>
        /\ raised # "TypeError"
        /\ net # <<>>
        /\ net[1].aux = last.aux
        /\ ys.kind # "none" => ys.kind = (IF last.aux THEN "pair" ELSE "single")

\* the last call got as far as PSPNet.__init__
ReachedInit == last.op # "none" /\ raised # "TypeError"

\* C4: constructing a PSPNet fails with an assertion error whenever
\* in_size[0] or in_size[1] is not divisible by 8 or in_channels <= 0, and
\* for every accepted in_size the pyramid-pooling target size
\* (in_size[0] // 8, in_size[1] // 8) times 8 is in_size.
C4_InSize ==
    /\ (/\ ReachedInit
        /\ \/ last.in_channels <= 0
           \/ last.in_size[1] % 8 # 0
           \/ last.in_size[2] % 8 # 0)
       => (raised = "AssertionError" /\ net = <<>>)
    /\ net # <<>> =>
          /\ net[1].in_size = last.in_size
          /\ net[1].pool.out_size = <<last.in_size[1] \div 8, last.in_size[2] \div 8>>
          /\ <<net[1].pool.out_size[1] * 8, net[1].pool.out_size[2] * 8>> = net[1].in_size

\* a network was constructed for an image that is not square
C4_Witness ==
    /\ last.op = "PSPNet" /\ raised = "none" /\ net # <<>>
    /\ net[1].in_size = <<8, TestSize>>
    /\ net[1].pool.out_size = <<1, 60>>

\* C5, as stated: with aux=False and the same backbone, the count of
\* trainable parameters grows by exactly 512 per class, and two models with
\* the class counts of two factories differ by what the golden values of the
\* factories differ by (66048 between 150 and 21 classes, 1024 between 21 and
\* 19).
C5_Claim ==
    \A i, j \in DOMAIN counts :
        (/\ counts[i].backbone = counts[j].backbone
         /\ counts[i].in_channels = counts[j].in_channels
         /\ ~counts[i].aux /\ ~counts[j].aux)
        => /\ counts[j].weight_count - counts[i].weight_count
                = 512 * (counts[j].classes - counts[i].classes)
           /\ \A f, g \in Factories :
                (/\ FactoryDepth(f) = counts[i].backbone.depth
                 /\ FactoryDepth(g) = counts[i].backbone.depth
                 /\ FactoryClasses(f) = counts[i].classes
                 /\ FactoryClasses(g) = counts[j].classes)
                => counts[j].weight_count - counts[i].weight_count
                     = GoldenWeightCount(g, FALSE) - GoldenWeightCount(f, FALSE)

\* C7, as stated: with pretrained=True a factory loads the weight file of a
\* model name that is its own: no other factory passes that name, so a
\* ResNet-101 factory never loads the weights of a ResNet-50 model.
C7_Claim ==
    (last.f \in Factories /\ last.pretrained /\ raised = "none") =>
        /\ loaded # ""
        /\ \A g \in Factories \ {last.f} : FactoryModelName(g) # loaded

\* the last call went through get_pspnet
ViaGetPspnet == last.op \notin {"none", "PSPNet"} /\ raised # "TypeError"

\* the PSPNet of the last call passed the assertions of its construction
Constructed == raised # "AssertionError"

\* the model_name of the last call is a non-empty string
NameGiven == last.model_name # <<>> /\ last.model_name[1] # ""

\* C8: get_pspnet loads pretrained parameters only if pretrained is true and
\* model_name is a non-empty string, and whenever the PSPNet is constructed
\* it loads them if that is so; with pretrained true and model_name None or
\* empty it raises ValueError and loads nothing; with pretrained false it
\* loads nothing and returns the constructed network whatever model_name is.
C8_Load ==
    ViaGetPspnet =>
        /\ loaded # "" =>
              /\ last.pretrained /\ NameGiven
              /\ loaded = last.model_name[1]
              /\ raised = "none" /\ net # <<>>
        /\ Constructed => (loaded # "" <=> (last.pretrained /\ NameGiven))
        /\ (last.pretrained /\ ~NameGiven) =>
              /\ loaded = "" /\ net = <<>>
              /\ Constructed => raised = "ValueError"
        /\ ~last.pretrained =>
              /\ loaded = ""
              /\ Constructed => (raised = "none" /\ net # <<>>)

\* get_pspnet refused to load weights for the empty model name
C8_Witness ==
    /\ last.op = "get_pspnet" /\ last.pretrained /\ last.model_name = <<"">>
    /\ raised = "ValueError" /\ loaded = "" /\ net = <<>>

====
